---- MODULE Spec2Model ----
(***************************************************************************)
(* Model of the SoX ALSA device driver (src/src/alsa.c).                   *)
(*                                                                         *)
(* One stream session (priv_t) with its two worker threads (setup starts   *)
(* read_thread and write_thread for every session), the application        *)
(* thread calling read_/write_/stop/stop_write, the four semaphores, the   *)
(* conversion buffer p->buf and the transfer buffer p->thread_buf.         *)
(* Lengths are in samples unless a name says frames; the application      *)
(* passes whole frames (len is a multiple of ft->signal.channels).         *)
(*                                                                         *)
(* select_format is a pure function of (nbits, encoding, mask); it is      *)
(* modelled as operators and exercised by the specification SelSpec.       *)
(* SetupSpec follows setup's buffer geometry and resource steps, CodecSpec *)
(* the conversion of one sample by write_ and read_, and ProcSpec the      *)
(* session next to another session of the same process.                    *)
(***************************************************************************)
EXTENDS Integers, Sequences, FiniteSets, TLC

\* ---------------------------------------------------------------- bounds
MaxCalls    == 2    \* read_/write_ calls the application makes per session
MaxLen      == 3    \* frames per read_/write_ call: 1..MaxLen
MaxErr      == 1    \* hardware errors (negative snd_pcm_readi/writei results)
MaxChannels == 2    \* ft->signal.channels: 1 (mono) or MaxChannels
MaxPeriod   == 3    \* p->period in frames: 1 or MaxPeriod
MaxBits     == 33   \* requested *nbits_: 0..MaxBits (33 is above every entry)
MaxBufsiz   == 3    \* sox_globals.bufsiz in bytes: 1 or MaxBufsiz
MaxFrames   == 16   \* the device's buffer sizes in frames: 1..MaxFrames
MaxSpread   == 2    \* samples tried around each anchor value: -MaxSpread..MaxSpread

\* ------------------------------------------------------- errno constants
EPIPE    == -32
ESTRPIPE == -86
EIO      == -5

VARIABLES
  \* ft
  mode,        \* ft->mode: "r" capture, "w" playback
  channels,    \* ft->signal.channels
  olength,     \* ft->olength: samples written through the framework so far
  \* priv_t
  buf_len,     \* p->buf_len, in samples (after setup line 240)
  period,      \* p->period, in frames
  read_len,    \* p->read_len
  write_len,   \* p->write_len
  buf,         \* content of p->buf (conversion buffer)
  thread_buf,  \* content of p->thread_buf (transfer buffer)
  write_sem, rwrite_sem, read_sem, rread_sem,
  pcm_open,    \* p->pcm is an open handle
  buf_freed,   \* p->buf has been freed
  first,       \* read_'s static sox_bool first
  \* application thread
  apc,         \* position of the application thread
  req,         \* len argument of the current read_/write_ call
  rd_len,      \* read_'s len after line 267
  done,        \* write_'s done
  n,           \* write_'s n
  wret,        \* where the current write_ call returns to
  ncalls,      \* read_/write_ calls made so far
  callLens,    \* set of len arguments of all write_ calls so far
  \* write_thread
  wpc, wn, wi,
  \* read_thread
  rpc, rlen,
  \* hardware
  hwErrors,    \* negative results returned by snd_pcm_readi/writei so far
  hwseq,       \* blocks the capture hardware has produced
  \* observation
  submitted,   \* blocks write_ copied into thread_buf, in order
  sent,        \* what write_thread handed to snd_pcm_writei, in order
  lastCall,    \* the read_/write_ call that returned last: op, req, ret,
               \* and the ids lo..hi of the blocks it transferred
  failed,      \* ids of the blocks during whose transfer recover() failed
  copies,      \* memcpy(p->buf, p->thread_buf) done by read_thread
  decodes,     \* decodes of p->buf done by read_
  lastRead,    \* the block read_ decoded last
  padded,      \* samples stop_write passed to write_ (-1: stop_write not run)
  drained,     \* snd_pcm_drain has been called
  uaf,         \* a worker used p->pcm after snd_pcm_close or p->buf after free
  \* select_format
  encoding,    \* *encoding_
  nbits,       \* *nbits_
  mask,        \* the device's format mask: a set of ALSA formats
  format,      \* *format (p->format)
  sel_ret,     \* select_format's return value (1: not called yet)
  sel_in,      \* the values of *encoding_, *nbits_, *format at the call
  \* setup
  spc,         \* position of setup ("done": it has returned)
  bufsiz,      \* sox_globals.bufsiz
  buffer_size_min, buffer_size_max,   \* setup's min and max: the device's range
  setup_ret,   \* setup's return value ("none": not returned yet)
  allocated,   \* what setup has allocated: "buf", "thread_buf", "tpt"
  sems,        \* the semaphores sem_init has initialised
  \* sample conversion
  cpc,           \* position of the conversion of one sample
  sample,        \* the canonical sample handed to write_ (*buf)
  reverse_bytes, \* ft->encoding.reverse_bytes
  host_be,       \* the host stores integers most significant byte first
  dev,           \* the sample's bytes in p->buf, in memory order
  decoded,       \* the canonical sample read_ stores (*buf)
  clips          \* ft->clips

pvars   == <<buf_len, period, read_len, write_len, buf, thread_buf,
             write_sem, rwrite_sem, read_sem, rread_sem, pcm_open, buf_freed>>
ftvars  == <<mode, channels, olength>>
appvars == <<apc, req, rd_len, done, n, wret, ncalls, callLens, first>>
wtvars  == <<wpc, wn, wi>>
rtvars  == <<rpc, rlen>>
hwvars  == <<hwErrors, hwseq>>
obsvars == <<submitted, sent, lastCall, failed, copies, decodes, lastRead,
             padded, drained, uaf>>
setupvars == <<spc, bufsiz, buffer_size_min, buffer_size_max, setup_ret,
               allocated, sems>>
codecvars == <<cpc, sample, reverse_bytes, host_be, dev, decoded, clips>>
\* what the running pipeline leaves alone: select_format's and setup's cells
\* and the conversion of one sample
selvars == <<encoding, nbits, mask, format, sel_ret, sel_in, setupvars,
             codecvars>>
pipevars == <<pvars, ftvars, appvars, wtvars, rtvars, hwvars, obsvars>>
vars    == <<pipevars, selvars>>

min(a, b) == IF a < b THEN a ELSE b

\* A buffer's content: which block it holds, how many valid samples, and
\* what kind of data ("data", "zero" silence, "short" read, "fail", "none").
NoBlock == [id |-> 0, len |-> 0, kind |-> "none"]
NoCall  == [op |-> "none", req |-> 0, ret |-> 0, lo |-> 0, hi |-> 0]

\* ======================================================== select_format

\* The ALSA formats a mask can hold: the nine of the catalog and one the
\* catalog does not list.
AlsaFmts == {"S8", "U8", "S16", "U16", "S24", "U24", "S24_3LE", "S32", "U32",
             "FLOAT"}
Encodings == {"UNKNOWN", "SIGN2", "UNSIGNED", "FLOAT"}

\* formats[]: the sentinel's alsa_fmt is 0, which is SND_PCM_FORMAT_S8.
formats_tbl ==
  << [bits |->  8, alsa_fmt |-> "S8",      bytes |-> 1, enc |-> "SIGN2"],
     [bits |->  8, alsa_fmt |-> "U8",      bytes |-> 1, enc |-> "UNSIGNED"],
     [bits |-> 16, alsa_fmt |-> "S16",     bytes |-> 2, enc |-> "SIGN2"],
     [bits |-> 16, alsa_fmt |-> "U16",     bytes |-> 2, enc |-> "UNSIGNED"],
     [bits |-> 24, alsa_fmt |-> "S24",     bytes |-> 4, enc |-> "SIGN2"],
     [bits |-> 24, alsa_fmt |-> "U24",     bytes |-> 4, enc |-> "UNSIGNED"],
     [bits |-> 24, alsa_fmt |-> "S24_3LE", bytes |-> 3, enc |-> "SIGN2"],
     [bits |-> 32, alsa_fmt |-> "S32",     bytes |-> 4, enc |-> "SIGN2"],
     [bits |-> 32, alsa_fmt |-> "U32",     bytes |-> 4, enc |-> "UNSIGNED"],
     [bits |->  0, alsa_fmt |-> "S8",      bytes |-> 0, enc |-> "UNKNOWN"] >>

\* formats[i], with the C index i = 0..9
formats(i) == formats_tbl[i + 1]

snd_pcm_format_mask_test(msk, fmt) == fmt \in msk

\* Mutant of sel_from: the scan starts at the first entry of the catalog,
\* whatever the requested bit-depth.
sel_from_nostep(from, nb) == from

\* line 65-66: while (formats[from].bits < *nbits_ && formats[from].bits != 0) from++;
RECURSIVE sel_from(_, _)
sel_from(from, nb) ==
  IF formats(from).bits < nb /\ formats(from).bits # 0
    THEN sel_from(from + 1, nb)
    ELSE from

\* line 67: for (to = from; formats[to].bits != 0; to++) ;
RECURSIVE sel_to(_)
sel_to(to) == IF formats(to).bits # 0 THEN sel_to(to + 1) ELSE to

\* Mutant of sel_scan: the encoding is compared before the mask is tested,
\* so an entry of the requested encoding is taken whether supported or not.
RECURSIVE sel_scan_nomask(_, _, _, _, _)
sel_scan_nomask(i, to, cand, enc, msk) ==
  IF ~(i < to) THEN cand
  ELSE IF formats(i).enc = enc THEN i
  ELSE IF snd_pcm_format_mask_test(msk, formats(i).alsa_fmt)
    THEN sel_scan_nomask(i + 1, to, IF cand = -1 THEN i ELSE cand, enc, msk)
    ELSE sel_scan_nomask(i + 1, to, cand, enc, msk)

\* Mutant of sel_scan: the first supported entry is taken, whatever its
\* encoding (the scan does not go on to look for the requested encoding).
RECURSIVE sel_scan_first(_, _, _, _, _)
sel_scan_first(i, to, cand, enc, msk) ==
  IF ~(i < to) THEN cand
  ELSE IF snd_pcm_format_mask_test(msk, formats(i).alsa_fmt) THEN i
  ELSE sel_scan_first(i + 1, to, cand, enc, msk)

\* lines 71-81: the for loop over i = from..to-1; the value is cand after it.
RECURSIVE sel_scan(_, _, _, _, _)
sel_scan(i, to, cand, enc, msk) ==
  IF ~(i < to) THEN cand
  ELSE IF snd_pcm_format_mask_test(msk, formats(i).alsa_fmt)
    THEN IF formats(i).enc = enc
           THEN i                                          \* break
           ELSE sel_scan(i + 1, to, IF cand = -1 THEN i ELSE cand, enc, msk)
    ELSE sel_scan(i + 1, to, cand, enc, msk)

\* Mutant of sel_back: one entry back, not to the first entry of the group.
sel_back_one(from, bits_next) == IF from # 0 THEN from - 1 ELSE from

\* lines 88-89: while (from && formats[from-1].bits == bits_next) from--;
RECURSIVE sel_back(_, _)
sel_back(from, bits_next) ==
  IF from # 0 /\ formats(from - 1).bits = bits_next
    THEN sel_back(from - 1, bits_next)
    ELSE from

\* Mutant of sel_search: one scan only, no step down to the groups of fewer
\* bits.
sel_search_nostep(from, to, cand, enc, msk) ==
  IF ~(to > 0) THEN cand ELSE sel_scan(from, to, cand, enc, msk)

\* lines 69-90: while (to > 0) { scan; if (cand != -1) break; step down }
RECURSIVE sel_search(_, _, _, _, _)
sel_search(from, to, cand, enc, msk) ==
  IF ~(to > 0) THEN cand
  ELSE LET c == sel_scan(from, to, cand, enc, msk) IN
       IF c # -1 THEN c
       ELSE LET bits_next == IF from > 0 THEN formats(from - 1).bits ELSE 0
            IN  sel_search(sel_back(from, bits_next), from, c, enc, msk)

\* lines 69-90: how many times the body of while (to > 0) runs.
RECURSIVE sel_rounds(_, _, _, _, _)
sel_rounds(from, to, cand, enc, msk) ==
  IF ~(to > 0) THEN 0
  ELSE LET c == sel_scan(from, to, cand, enc, msk) IN
       IF c # -1 THEN 1
       ELSE LET bits_next == IF from > 0 THEN formats(from - 1).bits ELSE 0
            IN  1 + sel_rounds(sel_back(from, bits_next), from, c, enc, msk)

\* lines 62-108: the result is the return value and the three cells.
select_format(enc, nb, msk, fmt) ==
  LET from == sel_from(0, nb)
      to   == sel_to(from)
      cand == sel_search(from, to, -1, enc, msk)
  IN  IF cand = -1
        THEN [ret |-> -1, encoding |-> enc, nbits |-> nb, format |-> fmt]
        ELSE IF nb # formats(cand).bits \/ enc # formats(cand).enc
          THEN [ret |-> 0, encoding |-> formats(cand).enc,
                nbits |-> formats(cand).bits, format |-> cand]
          ELSE [ret |-> 0, encoding |-> enc, nbits |-> nb, format |-> cand]

\* ====================================================== streaming pipeline

\* ---- state after setup() returned SOX_SUCCESS (lines 237-253)
\* period * 2 <= buf_len in frames (line 232); buf_len is then in samples
\* (line 240); the four semaphores are 0 (lines 244-247); both threads have
\* been created (lines 251-252); read_'s static first is sox_true (line 265).
PipeStart(m, ch, per) ==
  /\ mode = m
  /\ channels = ch
  /\ period = per
  /\ buf_len = per * 2 * ch
  /\ olength = 0
  /\ read_len = 0 /\ write_len = 0
  /\ buf = NoBlock /\ thread_buf = NoBlock
  /\ write_sem = 0 /\ rwrite_sem = 0 /\ read_sem = 0 /\ rread_sem = 0
  /\ pcm_open = TRUE /\ buf_freed = FALSE
  /\ first = TRUE
  /\ apc = "idle" /\ req = 0 /\ rd_len = 0 /\ done = 0 /\ n = 0 /\ wret = "idle"
  /\ ncalls = 0 /\ callLens = {}
  /\ wpc = "wt_start" /\ wn = 0 /\ wi = 0
  /\ rpc = "rt_start" /\ rlen = 0
  /\ hwErrors = 0 /\ hwseq = 0
  /\ submitted = <<>> /\ sent = <<>> /\ lastCall = NoCall /\ failed = {}
  /\ copies = 0 /\ decodes = 0 /\ lastRead = NoBlock
  /\ padded = -1 /\ drained = FALSE /\ uaf = FALSE

PipeInit ==
  \E m \in {"r", "w"}, ch \in {1, MaxChannels}, per \in {1, MaxPeriod} :
    PipeStart(m, ch, per)

\* select_format's cells while the pipeline runs: setup has called it.
SelIdle ==
  /\ encoding = "SIGN2" /\ nbits = 16 /\ mask = {"S16"} /\ format = 2
  /\ sel_ret = 0
  /\ sel_in = [encoding |-> "SIGN2", nbits |-> 16, format |-> 0]

\* setup's cells while the pipeline runs: it returned SOX_SUCCESS (line 253);
\* its locals min and max are gone.
SetupIdle ==
  /\ spc = "done" /\ setup_ret = "SOX_SUCCESS"
  /\ bufsiz = 0 /\ buffer_size_min = 0 /\ buffer_size_max = 0
  /\ allocated = {"buf", "thread_buf", "tpt"}
  /\ sems = {"write_sem", "rwrite_sem", "read_sem", "rread_sem"}

\* the conversion's cells while no single sample is followed
CodecIdle ==
  /\ cpc = "idle" /\ sample = 0 /\ reverse_bytes = FALSE /\ host_be = FALSE
  /\ dev = <<>> /\ decoded = 0 /\ clips = 0

Init == PipeInit /\ SelIdle /\ SetupIdle /\ CodecIdle

\* ---- recover() (lines 115-128)
\* err: the negative code of the failed call; resume: what snd_pcm_resume
\* returns once it no longer returns -EAGAIN; rec: what snd_pcm_recover
\* returns. The value is recover's return value.
recover(err, resume, rec) ==
  LET e == IF err = EPIPE THEN err
           ELSE IF err # ESTRPIPE THEN err
           ELSE resume
  IN  IF e < 0 THEN rec ELSE e

\* The results the device can give: error codes of a blocking call,
\* snd_pcm_resume's final result, snd_pcm_recover's result.
HwErrCodes    == {EPIPE, ESTRPIPE, EIO}
ResumeResults == {0, EIO}
RecoverResults == {0, EIO}

\* ---- what snd_pcm_writei was handed: block id, and how many of its samples
\* from offset 0 on, contiguously. A chunk that does not continue the last
\* record starts a new one.
Transmit(s, id, off, cnt) ==
  IF s # <<>> /\ s[Len(s)].id = id /\ s[Len(s)].cnt = off
    THEN [s EXCEPT ![Len(s)].cnt = off + cnt]
    ELSE Append(s, [id |-> id, cnt |-> cnt])

\* ---------------------------------------------------------------- write_

\* The framework's account of a write (sox_write: ft->olength += actual).
sox_write_olength(ol, actual) == ol + actual

\* Number of loop iterations (blocks) of a write_ call of len samples.
write_blocks(len) == (len + buf_len - 1) \div buf_len

\* The application calls write_(ft, buf, len) with len whole frames.
write_call ==
  /\ apc = "idle" /\ mode = "w" /\ ncalls < MaxCalls
  /\ \E frames \in 1..MaxLen :
       /\ req' = frames * channels
       /\ callLens' = callLens \cup {frames * channels}
  /\ done' = 0 /\ wret' = "idle" /\ ncalls' = ncalls + 1
  /\ apc' = "w_loop"
  /\ UNCHANGED <<pvars, ftvars, rd_len, n, first, wtvars, rtvars, hwvars, obsvars,
                 selvars>>

\* lines 352-414: the loop test; one block is encoded into p->buf and
\* p->write_len is set; or the loop ends and write_ returns len (line 419).
write_loop ==
  /\ apc = "w_loop"
  /\ IF done < req
       THEN /\ n' = min(req - done, buf_len)
            /\ buf' = [id   |-> Len(submitted) + 1,
                       len  |-> min(req - done, buf_len),
                       kind |-> IF wret = "idle" THEN "data" ELSE "zero"]
            /\ write_len' = min(req - done, buf_len)
            /\ apc' = "w_wait"
            /\ UNCHANGED <<olength, lastCall, req, done>>
       ELSE /\ lastCall' = [op |-> "write", req |-> req, ret |-> req,
                            lo |-> Len(submitted) - write_blocks(req) + 1,
                            hi |-> Len(submitted)]
            /\ olength' = IF wret = "idle"
                            THEN sox_write_olength(olength, req)
                            ELSE olength
            /\ apc' = wret
            /\ req' = 0 /\ done' = 0 /\ n' = 0     \* the locals end
            /\ UNCHANGED <<buf, write_len>>
  /\ UNCHANGED <<mode, channels, buf_len, period, read_len, thread_buf,
                 write_sem, rwrite_sem, read_sem, rread_sem, pcm_open,
                 buf_freed, rd_len, wret, ncalls, callLens, first,
                 wtvars, rtvars, hwvars, submitted, sent, failed, copies,
                 decodes, lastRead, padded, drained, uaf, selvars>>

\* Mutant of write_sem_wait: write_ goes on to the memcpy without waiting
\* for the worker's sem_post(&p->write_sem).
write_sem_wait_nowait ==
  /\ apc = "w_wait"
  /\ apc' = "w_copy"
  /\ UNCHANGED <<pvars, ftvars, req, rd_len, done, n, wret, ncalls, callLens,
                 first, wtvars, rtvars, hwvars, obsvars, selvars>>

\* line 415: sem_wait(&p->write_sem)
write_sem_wait ==
  /\ apc = "w_wait"
  /\ write_sem > 0
  /\ write_sem' = write_sem - 1
  /\ apc' = "w_copy"
  /\ UNCHANGED <<buf_len, period, read_len, write_len, buf, thread_buf,
                 rwrite_sem, read_sem, rread_sem, pcm_open, buf_freed,
                 ftvars, req, rd_len, done, n, wret, ncalls, callLens, first,
                 wtvars, rtvars, hwvars, obsvars, selvars>>

\* line 416: memcpy(p->thread_buf, p->buf, p->bufsize)
write_memcpy ==
  /\ apc = "w_copy"
  /\ thread_buf' = buf
  /\ submitted' = Append(submitted, buf)
  /\ apc' = "w_post"
  /\ UNCHANGED <<buf_len, period, read_len, write_len, buf,
                 write_sem, rwrite_sem, read_sem, rread_sem, pcm_open,
                 buf_freed, ftvars, req, rd_len, done, n, wret, ncalls, callLens,
                 first, wtvars, rtvars, hwvars, sent, lastCall, failed, copies,
                 decodes, lastRead, padded, drained, uaf, selvars>>

\* line 417 and the loop's done += n (line 352)
write_sem_post ==
  /\ apc = "w_post"
  /\ rwrite_sem' = rwrite_sem + 1
  /\ done' = done + n
  /\ apc' = "w_loop"
  /\ UNCHANGED <<buf_len, period, read_len, write_len, buf, thread_buf,
                 write_sem, read_sem, rread_sem, pcm_open, buf_freed,
                 ftvars, req, rd_len, n, wret, ncalls, callLens, first,
                 wtvars, rtvars, hwvars, obsvars, selvars>>

\* ------------------------------------------------------ stop, stop_write

\* Mutant of stop_write_npad: the remainder itself instead of what is
\* missing to the next multiple.
stop_write_npad_mod(nn, ol) == IF ol % nn = 0 THEN nn ELSE ol % nn

\* line 433: npad = n - (ft->olength % n), with n = channels * period
stop_write_npad(nn, ol) == nn - (ol % nn)

\* lines 433-437: the padding is computed; if npad != n the zero samples
\* go through write_, which returns to the drain.
stop_write_pad ==
  /\ apc = "idle" /\ mode = "w"
  /\ LET nn   == channels * period
         npad == stop_write_npad(nn, olength)
     IN  IF npad # nn
           THEN /\ req' = npad /\ done' = 0 /\ wret' = "sw_drain"
                /\ callLens' = callLens \cup {npad}
                /\ padded' = npad
                /\ apc' = "w_loop"
           ELSE /\ padded' = 0
                /\ apc' = "sw_drain"
                /\ UNCHANGED <<req, done, wret, callLens>>
  /\ UNCHANGED <<pvars, ftvars, rd_len, n, ncalls, first, wtvars, rtvars, hwvars,
                 submitted, sent, lastCall, failed, copies, decodes, lastRead,
                 drained, uaf, selvars>>

\* line 439: snd_pcm_drain(p->pcm)
stop_write_drain ==
  /\ apc = "sw_drain"
  /\ drained' = TRUE
  /\ apc' = "st_close"
  /\ UNCHANGED <<pvars, ftvars, req, rd_len, done, n, wret, ncalls, callLens, first,
                 wtvars, rtvars, hwvars, submitted, sent, lastCall, failed,
                 copies, decodes, lastRead, padded, uaf, selvars>>

\* The application calls stop(ft) on a capture session.
stop_call ==
  /\ apc = "idle" /\ mode = "r"
  /\ apc' = "st_close"
  /\ UNCHANGED <<pvars, ftvars, req, rd_len, done, n, wret, ncalls, callLens, first,
                 wtvars, rtvars, hwvars, obsvars, selvars>>

\* line 425: snd_pcm_close(p->pcm)
stop_close ==
  /\ apc = "st_close"
  /\ pcm_open' = FALSE
  /\ apc' = "st_free"
  /\ UNCHANGED <<buf_len, period, read_len, write_len, buf, thread_buf,
                 write_sem, rwrite_sem, read_sem, rread_sem, buf_freed,
                 ftvars, req, rd_len, done, n, wret, ncalls, callLens, first,
                 wtvars, rtvars, hwvars, obsvars, selvars>>

\* line 426: free(p->buf)
stop_free ==
  /\ apc = "st_free"
  /\ buf_freed' = TRUE
  /\ apc' = "stopped"
  /\ UNCHANGED <<buf_len, period, read_len, write_len, buf, thread_buf,
                 write_sem, rwrite_sem, read_sem, rread_sem, pcm_open,
                 ftvars, req, rd_len, done, n, wret, ncalls, callLens, first,
                 wtvars, rtvars, hwvars, obsvars, selvars>>

\* ---------------------------------------------------------- write_thread

\* line 162: sem_post(&p->write_sem)
write_thread_start ==
  /\ wpc = "wt_start"
  /\ write_sem' = write_sem + 1
  /\ wpc' = "wt_wait"
  /\ UNCHANGED <<buf_len, period, read_len, write_len, buf, thread_buf,
                 rwrite_sem, read_sem, rread_sem, pcm_open, buf_freed,
                 ftvars, appvars, wn, wi, rtvars, hwvars, obsvars, selvars>>

\* lines 163 and 176: sem_wait(&p->rwrite_sem)
write_thread_sem_wait ==
  /\ wpc = "wt_wait"
  /\ rwrite_sem > 0
  /\ rwrite_sem' = rwrite_sem - 1
  /\ wpc' = "wt_len"
  /\ UNCHANGED <<buf_len, period, read_len, write_len, buf, thread_buf,
                 write_sem, read_sem, rread_sem, pcm_open, buf_freed,
                 ftvars, appvars, wn, wi, rtvars, hwvars, obsvars, selvars>>

\* lines 165-166: n = p->write_len; i = 0; the for loop's first test
write_thread_len ==
  /\ wpc = "wt_len"
  /\ wn' = write_len
  /\ wi' = 0
  /\ wpc' = IF 0 < write_len THEN "wt_write" ELSE "wt_post"
  /\ UNCHANGED <<pvars, ftvars, appvars, rtvars, hwvars, obsvars, selvars>>

\* Mutant of write_thread_writei: i advances by frames (actual), not by
\* samples (actual * channels).
write_thread_writei_frames ==
  /\ wpc = "wt_write"
  /\ \E actual \in 1..((wn - wi) \div channels) :
       /\ sent' = Transmit(sent, thread_buf.id, wi, actual * channels)
       /\ wi' = wi + actual
       /\ wpc' = IF wi + actual < wn THEN "wt_write" ELSE "wt_post"
  /\ uaf' = (uaf \/ ~pcm_open)
  /\ UNCHANGED <<pvars, ftvars, appvars, wn, rtvars, hwvars, submitted,
                 lastCall, failed, copies, decodes, lastRead, padded, drained,
                 selvars>>

\* lines 167-171 and 166: snd_pcm_writei accepts actual >= 1 of the
\* (n - i) / channels frames offered from thread_buf + i (after any number
\* of -EAGAIN retries, line 171); i += actual * channels; the loop test.
\* On a closed handle the call is undefined: any outcome, and uaf is set.
write_thread_writei ==
  /\ wpc = "wt_write"
  /\ \E actual \in 1..((wn - wi) \div channels) :
       /\ sent' = Transmit(sent, thread_buf.id, wi, actual * channels)
       /\ wi' = wi + actual * channels
       /\ wpc' = IF wi + actual * channels < wn THEN "wt_write" ELSE "wt_post"
  /\ uaf' = (uaf \/ ~pcm_open)
  /\ UNCHANGED <<pvars, ftvars, appvars, wn, rtvars, hwvars, submitted,
                 lastCall, failed, copies, decodes, lastRead, padded, drained,
                 selvars>>

\* lines 168-174: snd_pcm_writei returns an error; recover() either succeeds
\* (the call is retried, line 174) or fails (return 0, line 173: the thread
\* ends).
write_thread_error ==
  /\ wpc = "wt_write"
  /\ hwErrors < MaxErr
  /\ hwErrors' = hwErrors + 1
  /\ \E actual \in HwErrCodes, resume \in ResumeResults, rec \in RecoverResults :
       IF recover(actual, resume, rec) < 0
         THEN /\ wpc' = "wt_exit"
              /\ failed' = failed \cup {thread_buf.id}
         ELSE /\ wpc' = "wt_write"
              /\ UNCHANGED failed
  /\ uaf' = (uaf \/ ~pcm_open)
  /\ UNCHANGED <<pvars, ftvars, appvars, wn, wi, rtvars, hwseq, submitted,
                 sent, lastCall, copies, decodes, lastRead, padded, drained,
                 selvars>>

\* line 175: sem_post(&p->write_sem)
write_thread_sem_post ==
  /\ wpc = "wt_post"
  /\ write_sem' = write_sem + 1
  /\ wpc' = "wt_wait"
  /\ UNCHANGED <<buf_len, period, read_len, write_len, buf, thread_buf,
                 rwrite_sem, read_sem, rread_sem, pcm_open, buf_freed,
                 ftvars, appvars, wn, wi, rtvars, hwvars, obsvars, selvars>>

write_thread ==
  \/ write_thread_start
  \/ write_thread_sem_wait
  \/ write_thread_len
  \/ write_thread_writei
  \/ write_thread_error
  \/ write_thread_sem_post

\* ----------------------------------------------------------- read_thread

\* line 137: sem_wait(&p->rread_sem)
read_thread_start ==
  /\ rpc = "rt_start"
  /\ rread_sem > 0
  /\ rread_sem' = rread_sem - 1
  /\ rpc' = "rt_len"
  /\ UNCHANGED <<buf_len, period, read_len, write_len, buf, thread_buf,
                 write_sem, rwrite_sem, read_sem, pcm_open, buf_freed,
                 ftvars, appvars, wtvars, rlen, hwvars, obsvars, selvars>>

\* line 139: len = p->read_len / ft->signal.channels
read_thread_len ==
  /\ rpc = "rt_len"
  /\ rlen' = read_len \div channels
  /\ rpc' = "rt_read"
  /\ UNCHANGED <<pvars, ftvars, appvars, wtvars, hwvars, obsvars, selvars>>

\* lines 140-144: snd_pcm_readi returns n > 0 frames, n <= len, into
\* thread_buf; the do-while ends as soon as n > 0.
read_thread_readi ==
  /\ rpc = "rt_read"
  /\ \E got \in 1..rlen :
       thread_buf' = [id   |-> hwseq + 1,
                      len  |-> got * channels,
                      kind |-> IF got = rlen THEN "data" ELSE "short"]
  /\ hwseq' = hwseq + 1
  /\ rpc' = "rt_wait"
  /\ uaf' = (uaf \/ ~pcm_open)
  /\ UNCHANGED <<buf_len, period, read_len, write_len, buf,
                 write_sem, rwrite_sem, read_sem, rread_sem, pcm_open,
                 buf_freed, ftvars, appvars, wtvars, rlen, hwErrors,
                 submitted, sent, lastCall, failed, copies, decodes, lastRead,
                 padded, drained, selvars>>

\* lines 141-144: snd_pcm_readi returns an error; recover() either succeeds
\* (n <= 0: the call is repeated) or fails (break, line 143: the block is
\* delivered with no new data in thread_buf).
read_thread_error ==
  /\ rpc = "rt_read"
  /\ hwErrors < MaxErr
  /\ hwErrors' = hwErrors + 1
  /\ \E nres \in HwErrCodes, resume \in ResumeResults, rec \in RecoverResults :
       IF recover(nres, resume, rec) < 0
         THEN /\ thread_buf' = [id |-> hwseq + 1, len |-> 0, kind |-> "fail"]
              /\ hwseq' = hwseq + 1
              /\ failed' = failed \cup {hwseq + 1}
              /\ rpc' = "rt_wait"
         ELSE /\ rpc' = "rt_read"
              /\ UNCHANGED <<thread_buf, hwseq, failed>>
  /\ uaf' = (uaf \/ ~pcm_open)
  /\ UNCHANGED <<buf_len, period, read_len, write_len, buf,
                 write_sem, rwrite_sem, read_sem, rread_sem, pcm_open,
                 buf_freed, ftvars, appvars, wtvars, rlen,
                 submitted, sent, lastCall, copies, decodes, lastRead,
                 padded, drained, selvars>>

\* line 146: sem_wait(&p->rread_sem)
read_thread_sem_wait ==
  /\ rpc = "rt_wait"
  /\ rread_sem > 0
  /\ rread_sem' = rread_sem - 1
  /\ rpc' = "rt_copy"
  /\ UNCHANGED <<buf_len, period, read_len, write_len, buf, thread_buf,
                 write_sem, rwrite_sem, read_sem, pcm_open, buf_freed,
                 ftvars, appvars, wtvars, rlen, hwvars, obsvars, selvars>>

\* line 147: memcpy(p->buf, p->thread_buf, p->bufsize). Into a freed p->buf
\* the copy is undefined: uaf is set.
read_thread_memcpy ==
  /\ rpc = "rt_copy"
  /\ buf' = thread_buf
  /\ copies' = copies + 1
  /\ rpc' = "rt_post"
  /\ uaf' = (uaf \/ buf_freed)
  /\ UNCHANGED <<buf_len, period, read_len, write_len, thread_buf,
                 write_sem, rwrite_sem, read_sem, rread_sem, pcm_open,
                 buf_freed, ftvars, appvars, wtvars, rlen, hwvars,
                 submitted, sent, lastCall, failed, decodes, lastRead,
                 padded, drained, selvars>>

\* Mutant of read_thread_sem_post: the block is signalled twice.
read_thread_sem_post_twice ==
  /\ rpc = "rt_post"
  /\ read_sem' = read_sem + 2
  /\ rpc' = "rt_len"
  /\ UNCHANGED <<buf_len, period, read_len, write_len, buf, thread_buf,
                 write_sem, rwrite_sem, rread_sem, pcm_open, buf_freed,
                 ftvars, appvars, wtvars, rlen, hwvars, obsvars, selvars>>

\* line 148: sem_post(&p->read_sem)
read_thread_sem_post ==
  /\ rpc = "rt_post"
  /\ read_sem' = read_sem + 1
  /\ rpc' = "rt_len"
  /\ UNCHANGED <<buf_len, period, read_len, write_len, buf, thread_buf,
                 write_sem, rwrite_sem, rread_sem, pcm_open, buf_freed,
                 ftvars, appvars, wtvars, rlen, hwvars, obsvars, selvars>>

read_thread ==
  \/ read_thread_start
  \/ read_thread_len
  \/ read_thread_readi
  \/ read_thread_error
  \/ read_thread_sem_wait
  \/ read_thread_memcpy
  \/ read_thread_sem_post

\* ----------------------------------------------------------------- read_

\* The application calls read_(ft, buf, len) with len whole frames.
read_call ==
  /\ apc = "idle" /\ mode = "r" /\ ncalls < MaxCalls
  /\ \E frames \in 1..MaxLen : req' = frames * channels
  /\ ncalls' = ncalls + 1
  /\ apc' = "r_enter"
  /\ UNCHANGED <<pvars, ftvars, rd_len, done, n, wret, callLens, first,
                 wtvars, rtvars, hwvars, obsvars, selvars>>

\* lines 267-276: len = min(len, p->buf_len); the first call records
\* read_len and goes on to prime the pipeline; a later call only records a
\* changed length.
read_enter ==
  /\ apc = "r_enter"
  /\ rd_len' = min(req, buf_len)
  /\ IF first
       THEN /\ read_len' = min(req, buf_len)
            /\ apc' = "r_prime1"
       ELSE /\ read_len' = IF read_len # min(req, buf_len)
                             THEN min(req, buf_len) ELSE read_len
            /\ apc' = "r_wait"
  /\ UNCHANGED <<buf_len, period, write_len, buf, thread_buf,
                 write_sem, rwrite_sem, read_sem, rread_sem, pcm_open,
                 buf_freed, ftvars, req, done, n, wret, ncalls, callLens,
                 first, wtvars, rtvars, hwvars, obsvars, selvars>>

\* line 270: sem_post(&p->rread_sem)
read_prime1 ==
  /\ apc = "r_prime1"
  /\ rread_sem' = rread_sem + 1
  /\ apc' = "r_prime2"
  /\ UNCHANGED <<buf_len, period, read_len, write_len, buf, thread_buf,
                 write_sem, rwrite_sem, read_sem, pcm_open, buf_freed,
                 ftvars, req, rd_len, done, n, wret, ncalls, callLens, first,
                 wtvars, rtvars, hwvars, obsvars, selvars>>

\* Mutant of read_prime2: one sem_post too many when priming.
read_prime2_extra ==
  /\ apc = "r_prime2"
  /\ rread_sem' = rread_sem + 2
  /\ first' = FALSE
  /\ apc' = "r_wait"
  /\ UNCHANGED <<buf_len, period, read_len, write_len, buf, thread_buf,
                 write_sem, rwrite_sem, read_sem, pcm_open, buf_freed,
                 ftvars, req, rd_len, done, n, wret, ncalls, callLens,
                 wtvars, rtvars, hwvars, obsvars, selvars>>

\* lines 271-272: sem_post(&p->rread_sem); first = sox_false
read_prime2 ==
  /\ apc = "r_prime2"
  /\ rread_sem' = rread_sem + 1
  /\ first' = FALSE
  /\ apc' = "r_wait"
  /\ UNCHANGED <<buf_len, period, read_len, write_len, buf, thread_buf,
                 write_sem, rwrite_sem, read_sem, pcm_open, buf_freed,
                 ftvars, req, rd_len, done, n, wret, ncalls, callLens,
                 wtvars, rtvars, hwvars, obsvars, selvars>>

\* line 278: sem_wait(&p->read_sem)
read_sem_wait ==
  /\ apc = "r_wait"
  /\ read_sem > 0
  /\ read_sem' = read_sem - 1
  /\ apc' = "r_decode"
  /\ UNCHANGED <<buf_len, period, read_len, write_len, buf, thread_buf,
                 write_sem, rwrite_sem, rread_sem, pcm_open, buf_freed,
                 ftvars, req, rd_len, done, n, wret, ncalls, callLens, first,
                 wtvars, rtvars, hwvars, obsvars, selvars>>

\* lines 279-340: len samples are decoded out of p->buf
read_decode ==
  /\ apc = "r_decode"
  /\ lastRead' = buf
  /\ decodes' = decodes + 1
  /\ apc' = "r_post"
  /\ UNCHANGED <<pvars, ftvars, req, rd_len, done, n, wret, ncalls, callLens,
                 first, wtvars, rtvars, hwvars, submitted, sent, lastCall,
                 failed, copies, padded, drained, uaf, selvars>>

\* lines 341-343: sem_post(&p->rread_sem); return len
read_sem_post ==
  /\ apc = "r_post"
  /\ rread_sem' = rread_sem + 1
  /\ lastCall' = [op |-> "read", req |-> req, ret |-> rd_len,
                  lo |-> lastRead.id, hi |-> lastRead.id]
  /\ req' = 0 /\ rd_len' = 0                       \* the locals end
  /\ apc' = "idle"
  /\ UNCHANGED <<buf_len, period, read_len, write_len, buf, thread_buf,
                 write_sem, rwrite_sem, read_sem, pcm_open, buf_freed,
                 ftvars, done, n, wret, ncalls, callLens, first,
                 wtvars, rtvars, hwvars, submitted, sent, failed, copies,
                 decodes, lastRead, padded, drained, uaf, selvars>>

\* ------------------------------------------------------- specifications

write_ == write_call \/ write_loop \/ write_sem_wait \/ write_memcpy
            \/ write_sem_post
read_  == read_call \/ read_enter \/ read_prime1 \/ read_prime2
            \/ read_sem_wait \/ read_decode \/ read_sem_post
stop_write == stop_write_pad \/ stop_write_drain
stop   == stop_call \/ stop_close \/ stop_free

Next == write_ \/ read_ \/ stop_write \/ stop \/ write_thread \/ read_thread

Spec == Init /\ [][Next]_vars

\* The steps of the application thread inside a call (it is not obliged to
\* make a call, but a call it has made runs on).
AppInCall == apc # "idle" /\ (write_ \/ read_ \/ stop_write \/ stop)

\* Both threads and a call in progress are scheduled again and again.
FairSpec == Spec /\ WF_vars(AppInCall) /\ WF_vars(write_thread)
                 /\ WF_vars(read_thread)

\* ---- select_format applied to every request and mask
SelInit ==
  /\ encoding \in Encodings
  /\ nbits \in 0..MaxBits
  /\ mask \in SUBSET AlsaFmts
  /\ format = 0          \* ft->priv is zero-filled when setup runs
  /\ sel_ret = 1
  /\ sel_in = [encoding |-> encoding, nbits |-> nbits, format |-> format]
  /\ PipeStart("w", 1, 1)
  /\ SetupIdle
  /\ CodecIdle

\* setup line 204: select_format(&ft->encoding.encoding,
\*   &ft->encoding.bits_per_sample, mask, &p->format)
setup_select_format ==
  /\ sel_ret = 1
  /\ LET r == select_format(encoding, nbits, mask, format) IN
       /\ sel_ret' = r.ret
       /\ encoding' = r.encoding
       /\ nbits' = r.nbits
       /\ format' = r.format
  /\ UNCHANGED <<mask, sel_in, pipevars, setupvars, codecvars>>

SelNext == setup_select_format

SelSpec == SelInit /\ [][SelNext]_vars

\* ================================================== claims: select_format

SelCalled == sel_ret # 1

\* The catalog entries (C indexes 0..8; 9 is the sentinel) the mask supports.
Supported == {i \in 0..8 : formats(i).alsa_fmt \in mask}

\* C8: whenever select_format returns success, the index stored in *format
\* is a non-sentinel catalog entry whose alsa_fmt is a member of the mask,
\* for every requested bit-depth (0 and above 32 included), encoding and mask.
C8_SelectedIsSupported ==
  (SelCalled /\ sel_ret = 0) =>
     /\ format \in 0..8
     /\ formats(format).bits # 0
     /\ formats(format).alsa_fmt \in mask

\* C8 witness: a request above every catalog depth, answered from a mask
\* that holds a non-catalog format and one catalog entry.
C8_Witness ==
  /\ SelCalled /\ sel_ret = 0
  /\ sel_in.nbits > 32
  /\ mask = {"FLOAT", "U16"}
  /\ format = 3

\* C9: select_format fails exactly when the mask holds no catalog entry, and
\* then leaves *encoding_, *nbits_ and *format as they were; with at least one
\* catalog entry in the mask it succeeds for every bit-depth and encoding.
C9_FailsIffNothingSupported ==
  SelCalled =>
     /\ (sel_ret = -1) <=> (Supported = {})
     /\ (sel_ret = 0) <=> (Supported # {})
     /\ (sel_ret = -1) =>
           /\ encoding = sel_in.encoding
           /\ nbits = sel_in.nbits
           /\ format = sel_in.format

\* C9 witness: a failure on a mask that is not empty but holds no catalog
\* entry, with the caller's cells as they were.
C9_Witness ==
  /\ SelCalled
  /\ sel_ret = -1 /\ mask = {"FLOAT"} /\ sel_in.nbits = 16
  /\ encoding = sel_in.encoding /\ nbits = 16

\* The bit-depth groups: the entries of one bits value.
Group(b) == {i \in 0..8 : formats(i).bits = b}
SupportedDepths == {formats(i).bits : i \in Supported}

\* The first bit-depth group with a supported entry: the lowest at or above
\* the requested depth, or else the highest below it (0 if there is none).
FirstGroupDepth(nb) ==
  LET above == {b \in SupportedDepths : b >= nb}
      below == {b \in SupportedDepths : b < nb}
  IN  IF above # {} THEN CHOOSE b \in above : \A c \in above : b <= c
      ELSE IF below # {} THEN CHOOSE b \in below : \A c \in below : b >= c
      ELSE 0

\* C10: if the first bit-depth group that has any supported entry also has a
\* supported entry of the requested encoding, the selected entry is the first
\* such entry of that group, and no entry of a lower group is selected.
C10_ExactEncodingInFirstGroup ==
  SelCalled =>
    LET g     == FirstGroupDepth(sel_in.nbits)
        exact == {i \in Group(g) \cap Supported :
                    formats(i).enc = sel_in.encoding}
    IN  (g # 0 /\ exact # {}) =>
           /\ sel_ret = 0
           /\ format \in exact
           /\ \A j \in exact : format <= j
           /\ formats(format).bits = g

\* C10 witness: 24-bit signed requested; the 24-bit group supports U24 and
\* S24_3LE (not S24); a lower group is supported too: S24_3LE (entry 6) is
\* selected past the supported U24 (entry 5).
C10_Witness ==
  /\ SelCalled
  /\ sel_in.nbits = 24 /\ sel_in.encoding = "SIGN2"
  /\ mask = {"U24", "S24_3LE", "S16", "S32"}
  /\ format = 6 /\ nbits = 24 /\ encoding = "SIGN2"

\* ======================================================= claims: pipeline

RECURSIVE SumLen(_)
SumLen(s) == IF s = <<>> THEN 0 ELSE s[1].len + SumLen(Tail(s))

\* Every write_ call so far (the padding call included) had one size B,
\* B <= buf_len.
SameSize == Cardinality(callLens) <= 1 /\ \A l \in callLens : l <= buf_len

\* What the worker handed to snd_pcm_writei is, block for block and sample
\* for sample, what write_ placed in thread_buf, up to the block in progress.
SentIsPrefix ==
  /\ Len(sent) <= Len(submitted)
  /\ \A k \in 1..Len(sent) :
       /\ sent[k].id = k /\ submitted[k].id = k
       /\ sent[k].cnt <= submitted[k].len
       /\ (k < Len(sent) => sent[k].cnt = submitted[k].len)

\* Every block placed in thread_buf has been handed over whole.
AllTransmitted ==
  /\ Len(sent) = Len(submitted)
  /\ \A k \in 1..Len(sent) :
       sent[k].id = submitted[k].id /\ sent[k].cnt = submitted[k].len

\* The worker sleeps in sem_wait(&p->rwrite_sem) and no block is signalled
\* or about to be.
WriteIdle == wpc = "wt_wait" /\ rwrite_sem = 0 /\ apc # "w_post"

\* C1: for write_ calls of one block size B <= buf_len with no hardware
\* errors, the blocks placed in thread_buf reach snd_pcm_writei exactly once
\* each and in submission order: at every point what was transmitted is a
\* prefix of what was submitted, and once the worker is idle again nothing
\* submitted is missing.
C1_InOrderExactlyOnce ==
  (SameSize /\ hwErrors = 0 /\ ~uaf) =>
     /\ SentIsPrefix
     /\ (WriteIdle => AllTransmitted)
     /\ (wpc = "wt_post" => AllTransmitted)

\* C1 witness: two write_ calls of one two-frame stereo block each, both
\* blocks transmitted whole, and the worker idle again.
C1_Witness ==
  /\ SameSize /\ hwErrors = 0 /\ ~uaf
  /\ ncalls = 2 /\ channels = 2 /\ callLens = {4}
  /\ Len(submitted) = 2 /\ AllTransmitted /\ WriteIdle
  /\ apc = "idle"

\* The worker is between its sem_wait(&p->rwrite_sem) and its
\* sem_post(&p->write_sem): it owns thread_buf.
WorkerConsuming == wpc \in {"wt_len", "wt_write", "wt_post"}

\* C3: write_ never copies a new block into thread_buf while write_thread is
\* still handing the previous one to snd_pcm_writei, and the block the worker
\* is in the middle of is still the one it started on.
C3_NoOverwrite ==
  /\ ~(apc = "w_copy" /\ WorkerConsuming)
  /\ (wpc = "wt_write" /\ wi > 0) =>
        /\ sent[Len(sent)].id = thread_buf.id
        /\ sent[Len(sent)].cnt = wi
  /\ WorkerConsuming => thread_buf = submitted[Len(submitted)]

\* C3 witness: the worker is part-way through block 1 while write_ has
\* already encoded block 2 and waits in sem_wait(&p->write_sem).
C3_Witness ==
  /\ wpc = "wt_write" /\ wi > 0 /\ wi < wn
  /\ thread_buf.id = 1
  /\ apc = "w_wait" /\ buf.id = 2 /\ write_sem = 0

\* The application is between sem_wait(&p->read_sem) and
\* sem_post(&p->rread_sem); the worker between sem_wait(&p->rread_sem) and
\* sem_post(&p->read_sem).
AppDecoding   == apc \in {"r_decode", "r_post"}
WorkerCopying == rpc \in {"rt_copy", "rt_post"}

\* C2: read_ and read_thread never access p->buf at the same time, and the
\* worker's copies and the application's decodes alternate: copy, decode,
\* copy, decode, ...
C2_StrictAlternation ==
  /\ ~(AppDecoding /\ WorkerCopying)
  /\ decodes <= copies /\ copies <= decodes + 1
  /\ (rpc = "rt_copy" => copies = decodes)
  /\ (apc = "r_decode" => copies = decodes + 1)

\* C2 witness: the second block is being decoded while the worker, one block
\* ahead, waits for the buffer.
C2_Witness ==
  /\ mode = "r" /\ copies = 2 /\ decodes = 1
  /\ apc = "r_decode" /\ rpc = "rt_wait" /\ rread_sem = 0
  /\ buf.id = 2 /\ thread_buf.id = 3

\* C5: stop_write passes exactly n - (olength mod n) zero samples through
\* write_ before the drain when olength mod n # 0 (n = channels * period),
\* none when olength mod n = 0, and at the drain the total submitted is a
\* multiple of n.
C5_Padding ==
  LET nn == channels * period IN
  (padded # -1) =>
     /\ (olength % nn # 0 => padded = nn - (olength % nn))
     /\ (olength % nn = 0 => padded = 0)
     /\ drained =>
          /\ SumLen(submitted) = olength + padded
          /\ SumLen(submitted) % nn = 0
          /\ \A k \in 1..Len(submitted) :
               submitted[k].kind = "zero" <=>
                  (padded > 0 /\ k = Len(submitted))
          /\ padded > 0 => submitted[Len(submitted)].len = padded

\* C5 witness: four padding samples were written (stereo, period 3: n = 6,
\* after one frame, olength = 2) and the device was drained.
C5_Witness ==
  /\ drained /\ padded = 4 /\ olength = 2 /\ channels = 2 /\ period = 3
  /\ submitted[Len(submitted)].kind = "zero"

\* C4 (as claimed): when snd_pcm_drain is called, write_thread has handed
\* every block accepted by write_, the padding block included, to the device,
\* and none is in flight.
C4_DrainAfterAllTransmitted ==
  drained => (AllTransmitted /\ wpc \notin {"wt_len", "wt_write"})

\* C6 (as claimed): the read_ or write_ call that transferred a block during
\* which recover() failed returns less than the requested length.
C6_RecoveryFailureShortCount ==
  (lastCall.op # "none"
     /\ \E b \in failed : lastCall.lo <= b /\ b <= lastCall.hi)
  => lastCall.ret < lastCall.req

\* The application thread is inside read_ or write_.
InCall == apc \in {"w_loop", "w_wait", "w_copy", "w_post",
                   "r_enter", "r_prime1", "r_prime2", "r_wait", "r_decode",
                   "r_post"}

\* C7 (as claimed): after a recovery failure in a worker, a later read_ or
\* write_ call (one made after the call whose block failed has returned)
\* eventually returns; the hardware accepts every later transfer (no more
\* than MaxErr errors occur).
C7_LaterCallsReturn ==
  (InCall /\ failed # {} /\ \A b \in failed : b <= lastCall.hi) ~> ~InCall

\* ------------------------------------------- claims: select_format, again

\* The supported entries of exactly the requested depth, and the supported
\* entries of the requested encoding at that depth and above it.
SameDepth  == {i \in Supported : formats(i).bits = sel_in.nbits}
ExactSame  == {i \in SameDepth : formats(i).enc = sel_in.encoding}
ExactAbove == {i \in Supported : /\ formats(i).bits > sel_in.nbits
                                 /\ formats(i).enc = sel_in.encoding}

\* C11 (as claimed): whenever the mask contains some catalog entry of exactly
\* the requested bit-depth, the selected entry has the requested bit-depth.
C11_SameDepthSelected ==
  (SelCalled /\ SameDepth # {}) =>
     /\ sel_ret = 0
     /\ formats(format).bits = sel_in.nbits

\* C11 (amended): whenever the mask contains some catalog entry of exactly the
\* requested bit-depth, the selected entry is never of a lower bit-depth; it
\* has the requested bit-depth unless that group supports no entry of the
\* requested encoding while a deeper group does, and then the first supported
\* entry of the requested encoding above the requested depth is selected.
C11_SameDepthUnlessExactAbove ==
  (SelCalled /\ SameDepth # {}) =>
     /\ sel_ret = 0
     /\ formats(format).bits >= sel_in.nbits
     /\ (ExactSame # {} \/ ExactAbove = {}) =>
           formats(format).bits = sel_in.nbits
     /\ (ExactSame = {} /\ ExactAbove # {}) =>
           /\ format \in ExactAbove
           /\ \A j \in ExactAbove : format <= j

\* C11 witness: 16-bit signed requested of a device that supports 16-bit
\* unsigned and 8-bit signed and unsigned only: 16-bit unsigned (entry 3) is
\* selected.
C11_Witness ==
  /\ SelCalled /\ sel_ret = 0
  /\ sel_in.nbits = 16 /\ sel_in.encoding = "SIGN2"
  /\ mask = {"U16", "S8", "U8"}
  /\ format = 3 /\ nbits = 16 /\ encoding = "UNSIGNED"

\* The smallest element of a non-empty set of catalog indexes: the first
\* entry in catalog order.
FirstOf(S) == CHOOSE x \in S : \A y \in S : x <= y

\* The reference downgrade search for a request (nb, enc) and the mask: (1)
\* the first supported entry at or above the requested depth whose encoding
\* equals the request, else (2) the first supported entry at or above the
\* requested depth, else (3) in the nearest lower bit-depth group that has any
\* supported entry, the first entry with the requested encoding or otherwise
\* the first supported entry of that group; -1 if nothing is supported.
RefSelect(nb, enc, msk) ==
  LET sup        == {i \in 0..8 : formats(i).alsa_fmt \in msk}
      above      == {i \in sup : formats(i).bits >= nb}
      exactAbove == {i \in above : formats(i).enc = enc}
      lower      == {formats(i).bits : i \in sup \ above}
      g          == CHOOSE b \in lower : \A c \in lower : c <= b
      grp        == {i \in sup : formats(i).bits = g}
      exactGrp   == {i \in grp : formats(i).enc = enc}
  IN  IF exactAbove # {} THEN FirstOf(exactAbove)
      ELSE IF above # {} THEN FirstOf(above)
      ELSE IF lower = {} THEN -1
      ELSE IF exactGrp # {} THEN FirstOf(exactGrp)
      ELSE FirstOf(grp)

\* The rounds select_format's while loop made for the call.
SelRounds ==
  LET from == sel_from(0, sel_in.nbits)
  IN  sel_rounds(from, sel_to(from), -1, sel_in.encoding, mask)

\* C12: for every request and mask select_format's result is the reference
\* downgrade search's: it fails when the reference finds nothing, otherwise
\* it stores the reference's entry and that entry's depth and encoding; and
\* the search terminates: the while loop makes at most five rounds (the
\* range at or above the request, then one per lower bit-depth group).
C12_EqualsReferenceSearch ==
  SelCalled =>
    LET r == RefSelect(sel_in.nbits, sel_in.encoding, mask) IN
      /\ (r = -1) => sel_ret = -1
      /\ (r # -1) => /\ sel_ret = 0
                     /\ format = r
                     /\ nbits = formats(r).bits
                     /\ encoding = formats(r).enc
      /\ SelRounds \in 1..5

\* C12 witness: 32-bit signed requested; nothing is supported at 32 or 24
\* bits; the 16-bit group supports only U16; S8 is supported too. The third
\* round selects U16 (entry 3), not the signed entry of the lower group.
C12_Witness ==
  /\ SelCalled /\ sel_ret = 0
  /\ sel_in.nbits = 32 /\ sel_in.encoding = "SIGN2"
  /\ mask = {"FLOAT", "U16", "S8"}
  /\ format = 3 /\ nbits = 16 /\ encoding = "UNSIGNED"
  /\ SelRounds = 3

\* ================================================================== setup

\* range_limit(x, lower, upper) of sox_i.h: min(max(x, lower), upper)
range_limit(x, lower, upper) == min(IF x > lower THEN x ELSE lower, upper)

\* One catalog entry of each sample size (bytes 1, 2, 3, 4): S8, S16, S24_3LE,
\* S32.
SampleSizeFormats == {0, 2, 6, 7}

\* ---- setup() has opened the device, selected the format and set rate and
\* channels (lines 194-220) and is about to compute the geometry (line 223).
\* ft->priv is zero-filled; nothing is allocated, no semaphore initialised,
\* no thread created. The device's buffer-size range is min..max.
SetupInit ==
  /\ mode \in {"r", "w"}
  /\ channels \in {1, MaxChannels}
  /\ format \in SampleSizeFormats
  /\ bufsiz \in {1, MaxBufsiz}
  /\ buffer_size_min \in 1..MaxFrames
  /\ buffer_size_max \in buffer_size_min..MaxFrames
  /\ spc = "s_target" /\ setup_ret = "none"
  /\ allocated = {} /\ sems = {}
  /\ period = 0 /\ buf_len = 0
  /\ olength = 0
  /\ read_len = 0 /\ write_len = 0
  /\ buf = NoBlock /\ thread_buf = NoBlock
  /\ write_sem = 0 /\ rwrite_sem = 0 /\ read_sem = 0 /\ rread_sem = 0
  /\ pcm_open = TRUE /\ buf_freed = FALSE
  /\ first = TRUE
  /\ apc = "idle" /\ req = 0 /\ rd_len = 0 /\ done = 0 /\ n = 0 /\ wret = "idle"
  /\ ncalls = 0 /\ callLens = {}
  /\ wpc = "none" /\ wn = 0 /\ wi = 0
  /\ rpc = "none" /\ rlen = 0
  /\ hwErrors = 0 /\ hwseq = 0
  /\ submitted = <<>> /\ sent = <<>> /\ lastCall = NoCall /\ failed = {}
  /\ copies = 0 /\ decodes = 0 /\ lastRead = NoBlock
  /\ padded = -1 /\ drained = FALSE /\ uaf = FALSE
  /\ encoding = formats(format).enc /\ nbits = formats(format).bits
  /\ mask = {formats(format).alsa_fmt}
  /\ sel_ret = 0
  /\ sel_in = [encoding |-> encoding, nbits |-> nbits, format |-> 0]
  /\ CodecIdle

\* what the geometry steps of setup leave alone
setup_rest == <<ftvars, read_len, write_len, buf, thread_buf, pcm_open,
                buf_freed, appvars, wn, wi, rlen, hwvars, obsvars,
                encoding, nbits, mask, format, sel_ret, sel_in,
                bufsiz, buffer_size_min, buffer_size_max, codecvars>>
setup_sems == <<write_sem, rwrite_sem, read_sem, rread_sem>>

\* lines 223-224: p->buf_len = sox_globals.bufsiz * 8 /
\*   formats[p->format].bytes / ft->signal.channels
setup_target ==
  /\ spc = "s_target"
  /\ buf_len' = ((bufsiz * 8) \div formats(format).bytes) \div channels
  /\ spc' = "s_range"
  /\ UNCHANGED <<period, setup_ret, allocated, sems, setup_sems, wpc, rpc,
                 setup_rest>>

\* lines 225-228: min and max are read; p->period = range_limit(p->buf_len,
\* min, max) / 8; p->buf_len = p->period * 8
setup_range ==
  /\ spc = "s_range"
  /\ period' = range_limit(buf_len, buffer_size_min, buffer_size_max) \div 8
  /\ buf_len' =
       (range_limit(buf_len, buffer_size_min, buffer_size_max) \div 8) * 8
  /\ spc' = "s_period"
  /\ UNCHANGED <<setup_ret, allocated, sems, setup_sems, wpc, rpc, setup_rest>>

\* line 230: snd_pcm_hw_params_set_period_size_near stores the period the
\* device chose, whatever was asked for.
setup_period_size_near ==
  /\ spc = "s_period"
  /\ \E got \in 1..buffer_size_max : period' = got
  /\ spc' = "s_buffer"
  /\ UNCHANGED <<buf_len, setup_ret, allocated, sems, setup_sems, wpc, rpc,
                 setup_rest>>

\* line 231: snd_pcm_hw_params_set_buffer_size_near stores the buffer size
\* the device chose out of its range.
setup_buffer_size_near ==
  /\ spc = "s_buffer"
  /\ \E got \in buffer_size_min..buffer_size_max : buf_len' = got
  /\ spc' = "s_check"
  /\ UNCHANGED <<period, setup_ret, allocated, sems, setup_sems, wpc, rpc,
                 setup_rest>>

\* Mutant of setup_check: one period of headroom is taken for enough.
setup_check_one ==
  /\ spc = "s_check"
  /\ IF period > buf_len
       THEN setup_ret' = "SOX_EOF" /\ spc' = "done"
       ELSE spc' = "s_commit" /\ UNCHANGED setup_ret
  /\ UNCHANGED <<period, buf_len, allocated, sems, setup_sems, wpc, rpc,
                 setup_rest>>

\* lines 232-235 and 255-258: if (p->period * 2 > p->buf_len) { fail;
\* goto error } ... return SOX_EOF
setup_check ==
  /\ spc = "s_check"
  /\ IF period * 2 > buf_len
       THEN setup_ret' = "SOX_EOF" /\ spc' = "done"
       ELSE spc' = "s_commit" /\ UNCHANGED setup_ret
  /\ UNCHANGED <<period, buf_len, allocated, sems, setup_sems, wpc, rpc,
                 setup_rest>>

\* lines 237-239: snd_pcm_hw_params and snd_pcm_prepare succeed
setup_hw_params ==
  /\ spc = "s_commit"
  /\ spc' = "s_alloc"
  /\ UNCHANGED <<period, buf_len, setup_ret, allocated, sems, setup_sems,
                 wpc, rpc, setup_rest>>

\* the macro _ (lines 225-239 and 255-258): an ALSA call returns an error;
\* goto error; return SOX_EOF
setup_error ==
  /\ spc \in {"s_range", "s_period", "s_buffer", "s_commit"}
  /\ setup_ret' = "SOX_EOF"
  /\ spc' = "done"
  /\ UNCHANGED <<period, buf_len, allocated, sems, setup_sems, wpc, rpc,
                 setup_rest>>

\* lines 240-243: p->buf_len *= ft->signal.channels; bufsize; the two
\* buffers are allocated
setup_alloc ==
  /\ spc = "s_alloc"
  /\ buf_len' = buf_len * channels
  /\ allocated' = allocated \cup {"buf", "thread_buf"}
  /\ spc' = "s_sems"
  /\ UNCHANGED <<period, setup_ret, sems, setup_sems, wpc, rpc, setup_rest>>

\* lines 244-247: sem_init(.., 0, 0) of the four semaphores
setup_sem_init ==
  /\ spc = "s_sems"
  /\ write_sem' = 0 /\ rwrite_sem' = 0 /\ read_sem' = 0 /\ rread_sem' = 0
  /\ sems' = {"write_sem", "rwrite_sem", "read_sem", "rread_sem"}
  /\ spc' = "s_threads"
  /\ UNCHANGED <<period, buf_len, setup_ret, allocated, wpc, rpc, setup_rest>>

\* lines 248-253: tpt is allocated, both threads are created, setup returns
\* SOX_SUCCESS
setup_threads ==
  /\ spc = "s_threads"
  /\ allocated' = allocated \cup {"tpt"}
  /\ rpc' = "rt_start" /\ wpc' = "wt_start"
  /\ setup_ret' = "SOX_SUCCESS"
  /\ spc' = "done"
  /\ UNCHANGED <<period, buf_len, sems, setup_sems, setup_rest>>

setup == setup_target \/ setup_range \/ setup_period_size_near
           \/ setup_buffer_size_near \/ setup_check \/ setup_hw_params
           \/ setup_error \/ setup_alloc \/ setup_sem_init \/ setup_threads

SetupSpec == SetupInit /\ [][setup]_vars

\* ========================================================== claims: setup

\* The buffer size the device returned, in frames (p->buf_len is in samples
\* from line 240 on).
FinalFrames == IF "buf" \in allocated THEN buf_len \div channels ELSE buf_len

\* setup has taken a resource: a buffer, a semaphore or a thread.
SetupHolds == allocated # {} \/ sems # {} \/ wpc # "none" \/ rpc # "none"

\* C13: whenever setup returns success, the device's final period and buffer
\* size in frames satisfy period * 2 <= buffer; when they do not, setup
\* returns failure, and a failed setup has allocated no buffer, initialised
\* no semaphore and started no thread.
C13_BufferHeadroom ==
  /\ (setup_ret = "SOX_SUCCESS" \/ SetupHolds) => period * 2 <= FinalFrames
  /\ (spc = "done" /\ period * 2 > FinalFrames) => setup_ret = "SOX_EOF"
  /\ setup_ret = "SOX_EOF" => ~SetupHolds
  /\ spc = "done" => setup_ret \in {"SOX_SUCCESS", "SOX_EOF"}

\* C13 witness: the device answered period 5 and buffer 9 (5 * 2 > 9) and
\* setup failed with nothing allocated.
C13_Witness ==
  /\ spc = "done" /\ setup_ret = "SOX_EOF"
  /\ period = 5 /\ buf_len = 9
  /\ ~SetupHolds

\* C14 (as claimed): the period and the buffer size setup requests from the
\* device (line 230: the values computed at lines 227-228) satisfy
\* min <= buffer <= max and period >= 1, for every min <= max and target.
C14_RequestedGeometryInRange ==
  spc = "s_period" =>
     /\ buffer_size_min <= buf_len
     /\ buf_len <= buffer_size_max
     /\ period >= 1

\* ====================================================== sample conversion

\* sox.h: the canonical sample sox_sample_t is a 32-bit signed integer.
SOX_SAMPLE_MAX == 2147483647
SOX_SAMPLE_MIN == -SOX_SAMPLE_MAX - 1

\* d ^ SOX_SAMPLE_NEG on 32 bits: the top bit is flipped. The value is the
\* signed reading of the 32-bit result.
XorSampleNeg(d) ==
  IF d >= 0 THEN (d - SOX_SAMPLE_MAX) - 1 ELSE (d + SOX_SAMPLE_MAX) + 1

\* The two's complement reading of a pattern u of the given width.
AsSigned(bits, u) == IF u >= 2^(bits - 1) THEN u - 2^bits ELSE u

\* sox.h, for bits = 8, 16, 24: SOX_SAMPLE_TO_SIGNED(bits, d, clips) is
\*   d > SOX_SAMPLE_MAX - (1 << (31-bits)) ? ++(clips), SOX_INT_MAX(bits)
\*     : ((sox_uint32_t)(d + (1 << (31-bits)))) >> (32-bits)
\* v is the result as a pattern of that width; the logical shift of the
\* 32-bit pattern of t is floor(t / 2^(32-bits)) modulo 2^bits.
SOX_SAMPLE_TO_SIGNED(bits, d, c) ==
  IF d > SOX_SAMPLE_MAX - 2^(31 - bits)
    THEN [v |-> 2^(bits - 1) - 1, clips |-> c + 1]
    ELSE [v |-> ((d + 2^(31 - bits)) \div 2^(32 - bits)) % 2^bits,
          clips |-> c]

\* sox.h: SOX_SAMPLE_TO_UNSIGNED(bits, d, clips) is
\*   SOX_SAMPLE_TO_SIGNED(bits, d, clips) ^ SOX_INT_MIN(bits)
SOX_SAMPLE_TO_UNSIGNED(bits, d, c) ==
  LET r == SOX_SAMPLE_TO_SIGNED(bits, d, c)
  IN  [v |-> (r.v + 2^(bits - 1)) % 2^bits, clips |-> r.clips]

\* sox.h: SOX_SIGNED_TO_SAMPLE(bits, d) is (sox_sample_t)(d) << (32-bits):
\* the low bits of d become the top bits of the 32-bit sample.
SOX_SIGNED_TO_SAMPLE(bits, d) == AsSigned(bits, d % 2^bits) * 2^(32 - bits)

\* sox.h: SOX_UNSIGNED_TO_SAMPLE(bits, d) is
\*   SOX_SIGNED_TO_SAMPLE(bits, d) ^ SOX_SAMPLE_NEG
SOX_UNSIGNED_TO_SAMPLE(bits, d) == XorSampleNeg(SOX_SIGNED_TO_SAMPLE(bits, d))

\* sox.h: the 32-bit conversions are casts, and ^ SOX_SAMPLE_NEG if unsigned.
SOX_SAMPLE_TO_SIGNED_32BIT(d) == d
SOX_SAMPLE_TO_UNSIGNED_32BIT(d) == XorSampleNeg(d)
SOX_SIGNED_32BIT_TO_SAMPLE(d) == d
SOX_UNSIGNED_32BIT_TO_SAMPLE(d) == XorSampleNeg(d)

\* lsx_swapw (bswap_16): the two bytes of a 16-bit value change places.
lsx_swapw(x) == ((x % 256) * 256) + ((x \div 256) % 256)

RECURSIVE Reverse(_)
Reverse(s) == IF s = <<>> THEN <<>> ELSE Append(Reverse(Tail(s)), s[1])

\* *buf1++ = v for an integer type of nbytes bytes: the bytes of v in memory
\* order on this host.
Store(v, nbytes, be) ==
  LET le == [k \in 1..nbytes |-> (v \div 256^(k - 1)) % 256]
  IN  IF be THEN Reverse(le) ELSE le

\* *buf1++ of an unsigned type of up to three bytes and of a 32-bit type: the
\* value the host reads from the bytes (a 32-bit value in its signed reading).
Load(bytes, be) ==
  LET le == IF be THEN Reverse(bytes) ELSE bytes
  IN  IF Len(le) = 1 THEN le[1]
      ELSE IF Len(le) = 2 THEN le[1] + le[2] * 256
      ELSE IF Len(le) = 3 THEN le[1] + le[2] * 256 + le[3] * 65536
      ELSE le[1] + le[2] * 256 + le[3] * 65536
             + AsSigned(8, le[4]) * 16777216

\* write_ lines 387-390: temp & 0xFF, (temp & 0xFF00) >> 8,
\* (temp & 0xFF0000) >> 16 are stored in this order.
write_S24_3LE(temp) ==
  << temp % 256, (temp \div 256) % 256, (temp \div 65536) % 256 >>

\* Mutant of read_S24_3LE: the first byte is taken as the most significant.
read_S24_3LE_msb(bytes) == bytes[3] + bytes[2] * 256 + bytes[1] * 65536

\* read_ lines 315-318: temp = *buf1++; temp |= *buf1++ << 8;
\* temp |= *buf1++ << 16
read_S24_3LE(bytes) == bytes[1] + bytes[2] * 256 + bytes[3] * 65536

\* write_ lines 354-413: the switch for one sample d; the value is the bytes
\* stored in p->buf and ft->clips.
write_switch(fmt, d, rev, be, c) ==
  LET f   == formats(fmt).alsa_fmt
      s8  == SOX_SAMPLE_TO_SIGNED(8, d, c)
      u8  == SOX_SAMPLE_TO_UNSIGNED(8, d, c)
      s16 == SOX_SAMPLE_TO_SIGNED(16, d, c)
      u16 == SOX_SAMPLE_TO_UNSIGNED(16, d, c)
      s24 == SOX_SAMPLE_TO_SIGNED(24, d, c)
      u24 == SOX_SAMPLE_TO_UNSIGNED(24, d, c)
  IN  CASE f = "S8"  -> [bytes |-> Store(AsSigned(8, s8.v), 1, be),
                         clips |-> s8.clips]
        [] f = "U8"  -> [bytes |-> Store(u8.v, 1, be), clips |-> u8.clips]
        [] f = "S16" -> [bytes |-> Store(IF rev
                                           THEN lsx_swapw(AsSigned(16, s16.v))
                                           ELSE AsSigned(16, s16.v), 2, be),
                         clips |-> s16.clips]
        [] f = "U16" -> [bytes |-> Store(IF rev THEN lsx_swapw(u16.v)
                                                ELSE u16.v, 2, be),
                         clips |-> u16.clips]
        [] f = "S24" -> [bytes |-> Store(s24.v, 4, be), clips |-> s24.clips]
        [] f = "S24_3LE" -> [bytes |-> write_S24_3LE(s24.v),
                             clips |-> s24.clips]
        [] f = "U24" -> [bytes |-> Store(u24.v, 4, be), clips |-> u24.clips]
        [] f = "S32" -> [bytes |-> Store(SOX_SAMPLE_TO_SIGNED_32BIT(d), 4, be),
                         clips |-> c]
        [] f = "U32" -> [bytes |-> Store(SOX_SAMPLE_TO_UNSIGNED_32BIT(d), 4,
                                         be),
                         clips |-> c]

\* read_ lines 280-340: the switch for one sample; the value is the sample
\* stored in the caller's buffer.
read_switch(fmt, bytes, rev, be) ==
  LET f == formats(fmt).alsa_fmt
  IN  CASE f = "S8"  -> SOX_SIGNED_TO_SAMPLE(8, AsSigned(8, Load(bytes, be)))
        [] f = "U8"  -> SOX_UNSIGNED_TO_SAMPLE(8, Load(bytes, be))
        [] f = "S16" ->
             IF rev
               THEN SOX_SIGNED_TO_SAMPLE(16,
                      lsx_swapw(AsSigned(16, Load(bytes, be))))
               ELSE SOX_SIGNED_TO_SAMPLE(16, AsSigned(16, Load(bytes, be)))
        [] f = "U16" ->
             IF rev
               THEN SOX_UNSIGNED_TO_SAMPLE(16, lsx_swapw(Load(bytes, be)))
               ELSE SOX_UNSIGNED_TO_SAMPLE(16, Load(bytes, be))
        [] f = "S24" -> SOX_SIGNED_TO_SAMPLE(24, Load(bytes, be))
        [] f = "S24_3LE" -> SOX_SIGNED_TO_SAMPLE(24, read_S24_3LE(bytes))
        [] f = "U24" -> SOX_UNSIGNED_TO_SAMPLE(24, Load(bytes, be))
        [] f = "S32" -> SOX_SIGNED_32BIT_TO_SAMPLE(Load(bytes, be))
        [] f = "U32" -> SOX_UNSIGNED_32BIT_TO_SAMPLE(Load(bytes, be))

\* ---- the canonical samples tried for a layout of the given width: around
\* the extremes, zero and the byte boundaries, each exact in the layout or
\* with low bits set.
SampleUnit(bits) == 2^(32 - bits)
SampleHalf(bits) == IF bits = 32 THEN 0 ELSE 2^(31 - bits)
SampleSteps(bits) ==
  LET kmin == IF bits = 32 THEN SOX_SAMPLE_MIN ELSE -(2^(bits - 1))
      kmax == IF bits = 32 THEN SOX_SAMPLE_MAX ELSE 2^(bits - 1) - 1
      mid  == {a + d : a \in {-65536, -256, 0, 256, 65536},
                       d \in -MaxSpread..MaxSpread}
  IN  {kmin + d : d \in 0..MaxSpread} \cup {kmax - d : d \in 0..MaxSpread}
        \cup {k \in mid : kmin <= k /\ k <= kmax}
SampleOffsets(bits) ==
  IF bits = 32 THEN {0}
  ELSE {0, 1, SampleHalf(bits) - 1, SampleHalf(bits), SampleUnit(bits) - 1}
Samples(bits) ==
  {k * SampleUnit(bits) + o : k \in SampleSteps(bits),
                              o \in SampleOffsets(bits)}

\* One sample is about to be written by write_ and read back by read_ on a
\* session of any of the nine layouts.
CodecInit ==
  /\ format \in 0..8
  /\ reverse_bytes \in BOOLEAN
  /\ host_be \in BOOLEAN
  /\ sample \in Samples(formats(format).bits)
  /\ cpc = "c_write" /\ dev = <<>> /\ decoded = 0 /\ clips = 0
  /\ encoding = formats(format).enc /\ nbits = formats(format).bits
  /\ mask = {formats(format).alsa_fmt}
  /\ sel_ret = 0
  /\ sel_in = [encoding |-> encoding, nbits |-> nbits, format |-> 0]
  /\ PipeStart("w", 1, 1)
  /\ SetupIdle

\* write_ lines 354-413 for one sample
codec_write ==
  /\ cpc = "c_write"
  /\ LET r == write_switch(format, sample, reverse_bytes, host_be, clips) IN
       /\ dev' = r.bytes
       /\ clips' = r.clips
  /\ cpc' = "c_read"
  /\ UNCHANGED <<pipevars, encoding, nbits, mask, format, sel_ret, sel_in,
                 setupvars, sample, reverse_bytes, host_be, decoded>>

\* read_ lines 280-340 for one sample
codec_read ==
  /\ cpc = "c_read"
  /\ decoded' = read_switch(format, dev, reverse_bytes, host_be)
  /\ cpc' = "c_done"
  /\ UNCHANGED <<pipevars, encoding, nbits, mask, format, sel_ret, sel_in,
                 setupvars, sample, reverse_bytes, host_be, dev, clips>>

CodecNext == codec_write \/ codec_read

CodecSpec == CodecInit /\ [][CodecNext]_vars

\* ================================================= claims: sample conversion

\* The sample is not clipped by the layout: it is at most SOX_SAMPLE_MAX
\* less half a step of the layout.
InLayoutRange ==
  sample <= SOX_SAMPLE_MAX - SampleHalf(formats(format).bits)

\* The sample is a value of the layout: a whole number of the layout's steps.
ExactInLayout == sample % SampleUnit(formats(format).bits) = 0

\* C15 (as claimed): for each of the nine layouts and every canonical sample
\* within the layout's representable range (every sample the encoder does
\* not clip), decoding the bytes write_ encodes yields the sample again.
C15_RoundTripInRange ==
  (cpc = "c_done" /\ InLayoutRange) => decoded = sample

\* C15 (amended): for each of the nine layouts and every canonical sample
\* that is a whole number of the layout's steps (its low 32 - bits bits are
\* zero), decoding the bytes write_ encodes yields the sample again without
\* a clip, with reverse_bytes set or not and on either host byte order; the
\* S24_3LE bytes are the low, middle and high byte of the 24-bit value, in
\* this order, on either host.
C15_RoundTripExact ==
  (cpc = "c_done" /\ ExactInLayout) =>
     /\ decoded = sample
     /\ clips = 0
     /\ Len(dev) = formats(format).bytes
     /\ formats(format).alsa_fmt = "S24_3LE" =>
          LET v == (sample \div 256) % 16777216
          IN  dev = << v % 256, (v \div 256) % 256, v \div 65536 >>

\* C15 witness: on a big-endian host the S24_3LE sample 0x010002 (times 256)
\* was stored as the bytes 02 00 01 and read back.
C15_Witness ==
  /\ cpc = "c_done"
  /\ formats(format).alsa_fmt = "S24_3LE" /\ host_be
  /\ sample = 65538 * 256
  /\ dev = <<2, 0, 1>>
  /\ decoded = sample

\* ============================================ more than one session

\* read_'s first is static (line 265): one flag for the whole process. The
\* first read_ call of another session of the process, made before or while
\* this session runs, executes line 272 on the same flag.
other_session_read ==
  /\ first
  /\ first' = FALSE
  /\ UNCHANGED <<pvars, ftvars, apc, req, rd_len, done, n, wret, ncalls,
                 callLens, wtvars, rtvars, hwvars, obsvars, selvars>>

ProcNext == Next \/ other_session_read

\* One session in a process that may hold other sessions.
ProcSpec == Init /\ [][ProcNext]_vars

\* The tokens read_thread has taken from rread_sem while no read_ call of
\* the session has returned: one at line 137, one at line 146.
RreadTaken ==
  (IF rpc # "rt_start" THEN 1 ELSE 0)
    + (IF rpc \in {"rt_copy", "rt_post"} \/ copies > 0 THEN 1 ELSE 0)

\* C16 (as claimed): on the first read_ call of every capture session, a
\* second session of the process included, read_ has recorded the requested
\* length in read_len and posted rread_sem twice by the time it waits for
\* the first block at sem_wait(&p->read_sem).
C16_FirstReadPrimes ==
  (mode = "r" /\ ncalls = 1 /\ apc = "r_wait") =>
     /\ read_len = rd_len
     /\ rread_sem + RreadTaken = 2

\* ====================================================== claims: teardown

\* C17 (as claimed): after snd_pcm_close and free(p->buf) no worker thread
\* calls snd_pcm_readi or snd_pcm_writei on the closed handle or copies into
\* the freed conversion buffer, and snd_pcm_drain is not called while
\* write_thread is in its snd_pcm_writei loop.
C17_TeardownSafety ==
  /\ ~uaf
  /\ ~(drained /\ apc = "st_close" /\ wpc = "wt_write")

\* ===================================================== claims: hand-off

\* C18 (as claimed): the number of samples write_thread transmits for a block
\* (the n it read from p->write_len) is the n with which write_ encoded the
\* block that is in thread_buf.
C18_BlockLengthHandOff ==
  (wpc \in {"wt_write", "wt_post"}) => wn = thread_buf.len


\* C19 (as claimed): what read_thread has copied into the conversion buffer
\* when it posts read_sem is a full block of read_len / channels frames; no
\* hardware error is involved (the snd_pcm_readi calls returned frames).
C19_OnlyFullBlocks ==
  (rpc = "rt_post" /\ hwErrors = 0) =>
     /\ buf.len = rlen * channels
     /\ buf.kind = "data"


\* ==================================================== claims: semaphores

\* C20: for one session driven by one application thread the semaphore
\* counts satisfy write_sem <= 1, rwrite_sem <= 1, read_sem <= 1 and
\* rread_sem <= 2, and rread_sem <= 1 once read_thread has copied the first
\* block into the conversion buffer; in playback write_sem + rwrite_sem <= 1.
C20_SemaphoreBounds ==
  /\ write_sem \in 0..1
  /\ rwrite_sem \in 0..1
  /\ read_sem \in 0..1
  /\ rread_sem \in 0..2
  /\ (copies >= 1 => rread_sem <= 1)
  /\ (mode = "w" => write_sem + rwrite_sem <= 1)

\* C20 witness: read_ has primed the capture pipeline with two tokens, none
\* taken yet, and waits for the first block.
C20_Witness ==
  /\ mode = "r" /\ apc = "r_wait" /\ rpc = "rt_start"
  /\ rread_sem = 2 /\ read_sem = 0

====
